---- MODULE Spec2Model ----
(***************************************************************************)
(* IPv4 subnet calculator (packages/core): the address codec of ipUtils.ts *)
(* and the SubnetCalculator class.                                         *)
(*                                                                         *)
(* Representation.                                                         *)
(*   text     a JavaScript string is a sequence of one-character strings,  *)
(*            "10.0.0.1" is <<"1","0",".","0",".","0",".","1">>.           *)
(*   int32    the result of a JavaScript bitwise operator is a signed      *)
(*            32-bit integer, which is an integer of TLC.                  *)
(*   number   a JavaScript number that may leave the int32 range (2^32,    *)
(*            an address plus an offset) is the record [hi, lo] that       *)
(*            stands for hi * 65536 + lo, with lo in 0..65535.  Every      *)
(*            number the calculator handles is an integer below 2^53, so   *)
(*            the double arithmetic of the source is exact.                *)
(*   result   [ok |-> TRUE, value |-> v] for a return, and                 *)
(*            [ok |-> FALSE, error |-> e] for a throw.                     *)
(***************************************************************************)
EXTENDS Integers, Sequences, FiniteSets, TLC

VARIABLES pc, op, arg, res

vars == <<pc, op, arg, res>>

Return(v) == [ok |-> TRUE, value |-> v]

Throw(e) == [ok |-> FALSE, error |-> e]

NoResult == [ok |-> FALSE, error |-> "pending"]

(***************************************************************************)
(* Characters and strings                                                  *)
(***************************************************************************)
Digits == <<"0", "1", "2", "3", "4", "5", "6", "7", "8", "9">>

IsDigit(c) == \E i \in 1..10 : Digits[i] = c

DigitValue(c) == (CHOOSE i \in 1..10 : Digits[i] = c) - 1

RECURSIVE NatToString(_)
NatToString(n) ==
    IF n < 10 THEN <<Digits[n + 1]>>
    ELSE NatToString(n \div 10) \o <<Digits[(n % 10) + 1]>>

\* Number.prototype.toString of an integer, as Array.prototype.join applies it.
NumberToString(n) == IF n < 0 THEN <<"-">> \o NatToString(0 - n) ELSE NatToString(n)

\* [a, b, c, d].join('.')
JoinDot(nums) ==
    NumberToString(nums[1]) \o <<".">> \o NumberToString(nums[2]) \o <<".">> \o
    NumberToString(nums[3]) \o <<".">> \o NumberToString(nums[4])

\* String.prototype.split(sep) for a one-character separator.
RECURSIVE SplitFrom(_, _, _, _)
SplitFrom(s, sep, i, cur) ==
    IF i > Len(s) THEN <<cur>>
    ELSE IF s[i] = sep THEN <<cur>> \o SplitFrom(s, sep, i + 1, <<>>)
    ELSE SplitFrom(s, sep, i + 1, Append(cur, s[i]))

Split(s, sep) == SplitFrom(s, sep, 1, <<>>)

\* the characters parseInt skips before the number (StrWhiteSpaceChar): space,
\* tab, line feed, carriage return, form feed, vertical tab, U+00A0, U+FEFF
\* and U+1680.  The remaining ones (U+2000..U+200A, U+2028, U+2029, U+202F,
\* U+205F, U+3000) cannot be written in a string of this language and occur
\* in no text of this module.
WhiteSpaceChars ==
    {" ", "\t", "\n", "\r", "\f", "", " ", "﻿", " "}

IsWhiteSpace(c) == c \in WhiteSpaceChars

RECURSIVE SkipWhiteSpace(_)
SkipWhiteSpace(s) ==
    IF s # <<>> /\ IsWhiteSpace(Head(s)) THEN SkipWhiteSpace(Tail(s)) ELSE s

RECURSIVE LeadingDigits(_)
LeadingDigits(s) ==
    IF s # <<>> /\ IsDigit(Head(s)) THEN <<Head(s)>> \o LeadingDigits(Tail(s))
    ELSE <<>>

RECURSIVE DigitsValue(_)
DigitsValue(ds) ==
    IF ds = <<>> THEN 0
    ELSE DigitsValue(SubSeq(ds, 1, Len(ds) - 1)) * 10 + DigitValue(ds[Len(ds)])

\* parseInt(s, 10): leading white space, an optional sign, then the longest
\* run of digits; what follows the digits is ignored.
ParseIntBody(s) ==
    LET t == SkipWhiteSpace(s)
    IN  IF t # <<>> /\ (Head(t) = "-" \/ Head(t) = "+") THEN Tail(t) ELSE t

ParseIntNegative(s) ==
    LET t == SkipWhiteSpace(s) IN t # <<>> /\ Head(t) = "-"

\* isNaN(parseInt(s, 10))
parseIntIsNaN(s) == LeadingDigits(ParseIntBody(s)) = <<>>

\* parseInt(s, 10) where it is a number (0 stands in where it is NaN; every
\* use below is behind a validation that excludes NaN).
parseInt(s) ==
    LET v == DigitsValue(LeadingDigits(ParseIntBody(s)))
    IN  IF ParseIntNegative(s) THEN 0 - v ELSE v

HexDigits ==
    <<"0", "1", "2", "3", "4", "5", "6", "7", "8", "9", "a", "b", "c", "d", "e", "f">>

UpperHexDigits ==
    <<"0", "1", "2", "3", "4", "5", "6", "7", "8", "9", "A", "B", "C", "D", "E", "F">>

IsHexDigit(c) == \E i \in 1..16 : HexDigits[i] = c \/ UpperHexDigits[i] = c

HexDigitValue(c) == (CHOOSE i \in 1..16 : HexDigits[i] = c \/ UpperHexDigits[i] = c) - 1

RECURSIVE LeadingHexDigits(_)
LeadingHexDigits(s) ==
    IF s # <<>> /\ IsHexDigit(Head(s)) THEN <<Head(s)>> \o LeadingHexDigits(Tail(s))
    ELSE <<>>

RECURSIVE HexDigitsValue(_)
HexDigitsValue(ds) ==
    IF ds = <<>> THEN 0
    ELSE HexDigitsValue(SubSeq(ds, 1, Len(ds) - 1)) * 16 + HexDigitValue(ds[Len(ds)])

\* parseInt(s) without a radix: after the white space and the sign, a text
\* that starts with "0x" or "0X" is read in base 16, any other in base 10
HasHexPrefix(t) == Len(t) >= 2 /\ t[1] = "0" /\ (t[2] = "x" \/ t[2] = "X")

\* isNaN(parseInt(s))
parseIntNoRadixIsNaN(s) ==
    LET t == ParseIntBody(s)
    IN  IF HasHexPrefix(t) THEN LeadingHexDigits(SubSeq(t, 3, Len(t))) = <<>>
        ELSE LeadingDigits(t) = <<>>

\* parseInt(s) where it is a number (0 stands in where it is NaN)
parseIntNoRadix(s) ==
    LET t == ParseIntBody(s)
        v == IF HasHexPrefix(t)
             THEN HexDigitsValue(LeadingHexDigits(SubSeq(t, 3, Len(t))))
             ELSE DigitsValue(LeadingDigits(t))
    IN  IF ParseIntNegative(s) THEN 0 - v ELSE v

\* ip.split('.').map(o => parseInt(o, 10))
OctetsOf(ip) == LET parts == Split(ip, ".") IN [i \in 1..Len(parts) |-> parseInt(parts[i])]

(***************************************************************************)
(* 32-bit operators of JavaScript                                          *)
(***************************************************************************)
RECURSIVE BitAndN(_, _, _)
BitAndN(a, b, n) ==
    IF n = 0 THEN 0
    ELSE (IF a % 2 = 1 /\ b % 2 = 1 THEN 1 ELSE 0) + 2 * BitAndN(a \div 2, b \div 2, n - 1)

RECURSIVE BitOrN(_, _, _)
BitOrN(a, b, n) ==
    IF n = 0 THEN 0
    ELSE (IF a % 2 = 1 \/ b % 2 = 1 THEN 1 ELSE 0) + 2 * BitOrN(a \div 2, b \div 2, n - 1)

MinInt32 == (0 - 2147483647) - 1

\* the low 31 bits of an int32, as a natural number
Low31(a) == IF a >= 0 THEN a ELSE (a + 2147483647) + 1

\* a & b on int32 operands
BitAnd(a, b) ==
    LET low == BitAndN(Low31(a), Low31(b), 31)
    IN  IF a < 0 /\ b < 0 THEN MinInt32 + low ELSE low

\* a | b on int32 operands
BitOr(a, b) ==
    LET low == BitOrN(Low31(a), Low31(b), 31)
    IN  IF a < 0 \/ b < 0 THEN MinInt32 + low ELSE low

\* a << 1 on an int32: bit 30 becomes the sign, bit 31 is dropped
ShlOne(a) ==
    LET low30 == a % 1073741824
        b30   == (a \div 1073741824) % 2
    IN  IF b30 = 1 THEN MinInt32 + 2 * low30 ELSE 2 * low30

\* a << k: the shift count is taken modulo 32
RECURSIVE ShlN(_, _)
ShlN(a, k) == IF k = 0 THEN a ELSE ShlN(ShlOne(a), k - 1)

Shl(a, k) == ShlN(a, k % 32)

\* (a >>> k) & 0xff for k in 0..24: bits k..k+7 of the 32-bit pattern
UshrByte(a, k) == (a \div (2 ^ k)) % 256

(***************************************************************************)
(* Numbers beyond int32: hi * 65536 + lo                                   *)
(***************************************************************************)
Num(h, l) == [hi |-> h + (l \div 65536), lo |-> l % 65536]

NumOfInt(i) == Num(0, i)

NumAdd(a, b) == Num(a.hi + b.hi, a.lo + b.lo)

NumSub(a, b) == Num(a.hi - b.hi, a.lo - b.lo)

\* i * a for a small integer i
NumTimes(i, a) == Num(i * a.hi, i * a.lo)

\* Math.pow(2, k) for k in 0..32
NumPow2(k) == IF k >= 16 THEN Num(2 ^ (k - 16), 0) ELSE Num(0, 2 ^ k)

\* variant: the top byte is not cut to 8 bits
NumBytes_NoWrap(x) == <<x.hi \div 256, x.hi % 256, x.lo \div 256, x.lo % 256>>

\* [(x >>> 24) & 0xff, (x >>> 16) & 0xff, (x >>> 8) & 0xff, x & 0xff] of a
\* number x: ToUint32 keeps x modulo 2^32
NumBytes(x) ==
    LET h == x.hi % 65536
    IN  <<h \div 256, h % 256, x.lo \div 256, x.lo % 256>>

(***************************************************************************)
(* ipUtils.ts                                                              *)
(***************************************************************************)
\* variant: the pattern [0-9]{1,3}, without the bound 255
MatchesOctetPattern_AnyThreeDigits(g) ==
    /\ Len(g) \in 1..3
    /\ \A i \in 1..Len(g) : IsDigit(g[i])

\* one group of the pattern: 25[0-5] | 2[0-4][0-9] | [01]?[0-9][0-9]?
MatchesOctetPattern(g) ==
    /\ Len(g) \in 1..3
    /\ \A i \in 1..Len(g) : IsDigit(g[i])
    /\ Len(g) = 3 =>
         \/ g[1] = "2" /\ g[2] = "5" /\ DigitValue(g[3]) <= 5
         \/ g[1] = "2" /\ DigitValue(g[2]) <= 4
         \/ g[1] = "0"
         \/ g[1] = "1"

\* the anchored pattern: four groups separated by '.', nothing else
isValidIPv4(ip) ==
    LET parts == Split(ip, ".")
    IN  Len(parts) = 4 /\ \A i \in 1..4 : MatchesOctetPattern(parts[i])

isValidCIDR(cidr) ==
    LET parts == Split(cidr, "/")
    IN  /\ Len(parts) = 2
        /\ isValidIPv4(parts[1])
        /\ ~parseIntIsNaN(parts[2])
        /\ parseInt(parts[2]) >= 0
        /\ parseInt(parts[2]) <= 32

cidrToSubnetMask(cidr) ==
    IF cidr < 0 \/ cidr > 32 THEN Throw("Invalid CIDR prefix")
    ELSE LET allOnes == 0 - 1
             mask == IF cidr < 32 THEN Shl(allOnes, 32 - cidr) ELSE allOnes
         IN  Return(JoinDot(<<UshrByte(mask, 24), UshrByte(mask, 16),
                              UshrByte(mask, 8), UshrByte(mask, 0)>>))

\* the while loop of subnetMaskToCIDR: the number of 1 bits of an octet
RECURSIVE CountBits(_)
CountBits(bits) == IF bits = 0 THEN 0 ELSE (bits % 2) + CountBits(bits \div 2)

subnetMaskToCIDR(subnetMask) ==
    IF ~isValidIPv4(subnetMask) THEN Throw("Invalid subnet mask")
    ELSE LET octets == OctetsOf(subnetMask)
         IN  Return(CountBits(octets[1]) + CountBits(octets[2]) +
                    CountBits(octets[3]) + CountBits(octets[4]))

calculateWildcardMask(subnetMask) ==
    LET octets == OctetsOf(subnetMask)
    IN  JoinDot([i \in 1..4 |-> 255 - octets[i]])

calculateNetworkAddress(ip, subnetMask) ==
    LET ipOctets == OctetsOf(ip)
        maskOctets == OctetsOf(subnetMask)
    IN  JoinDot([i \in 1..4 |-> BitAnd(ipOctets[i], maskOctets[i])])

\* variant: the mask octets are used where the wildcard octets belong
calculateBroadcastAddress_MaskNotInverted(networkAddress, subnetMask) ==
    LET networkOctets == OctetsOf(networkAddress)
        maskOctets == OctetsOf(subnetMask)
    IN  JoinDot([i \in 1..4 |-> BitOr(networkOctets[i], maskOctets[i])])

calculateBroadcastAddress(networkAddress, subnetMask) ==
    LET networkOctets == OctetsOf(networkAddress)
        maskOctets == OctetsOf(subnetMask)
        wildcardOctets == [i \in 1..4 |-> 255 - maskOctets[i]]
    IN  JoinDot([i \in 1..4 |-> BitOr(networkOctets[i], wildcardOctets[i])])

calculateHostRange(networkAddress, broadcastAddress) ==
    LET networkOctets == OctetsOf(networkAddress)
        broadcastOctets == OctetsOf(broadcastAddress)
        firstOctets == [networkOctets EXCEPT ![4] = @ + 1]
        lastOctets == [broadcastOctets EXCEPT ![4] = @ - 1]
    IN  [first |-> JoinDot(firstOctets), last |-> JoinDot(lastOctets)]

\* variant: the network and broadcast addresses are not set aside
calculateNumberOfHosts_NoneReserved(cidr) ==
    IF cidr >= 31 THEN (IF cidr = 31 THEN NumOfInt(2) ELSE NumOfInt(1))
    ELSE NumPow2(32 - cidr)

calculateNumberOfHosts(cidr) ==
    IF cidr >= 31 THEN (IF cidr = 31 THEN NumOfInt(2) ELSE NumOfInt(1))
    ELSE NumSub(NumPow2(32 - cidr), NumOfInt(2))

\* octet.toString(2).padStart(8, '0') for an octet in 0..255
ToBinary8(octet) == [i \in 1..8 |-> Digits[((octet \div (2 ^ (8 - i))) % 2) + 1]]

\* parseIPv4(ip).decimalValue: (o0 << 24) | (o1 << 16) | (o2 << 8) | o3
parseIPv4(ip) ==
    IF ~isValidIPv4(ip) THEN Throw("Invalid IPv4 address")
    ELSE LET octets == OctetsOf(ip)
         IN  Return([address |-> ip,
                     octets |-> octets,
                     binaryOctets |-> [i \in 1..4 |-> ToBinary8(octets[i])],
                     decimalValue |->
                        BitOr(BitOr(BitOr(Shl(octets[1], 24), Shl(octets[2], 16)),
                                    Shl(octets[3], 8)), octets[4])])

\* value is a number [hi, lo]
addToIP(ip, value) ==
    LET parsed == parseIPv4(ip)
    IN  IF ~parsed.ok THEN parsed
        ELSE LET newDecimalValue == NumAdd(NumOfInt(parsed.value.decimalValue), value)
             IN  Return(JoinDot(NumBytes(newDecimalValue)))

\* Math.abs(x) of a number [hi, lo]
NumAbs(x) == IF x.hi < 0 THEN NumSub(NumOfInt(0), x) ELSE x

\* the difference is taken between the two signed decimalValue fields
ipDifference(ip1, ip2) ==
    LET parsed1 == parseIPv4(ip1)
        parsed2 == parseIPv4(ip2)
    IN  IF ~parsed1.ok THEN parsed1
        ELSE IF ~parsed2.ok THEN parsed2
        ELSE Return(NumAbs(NumSub(NumOfInt(parsed1.value.decimalValue),
                                  NumOfInt(parsed2.value.decimalValue))))

(***************************************************************************)
(* SubnetCalculator                                                        *)
(***************************************************************************)
\* the first octet of the network address decides the assumed class
OriginalCIDR(networkAddress) ==
    LET first == parseInt(Split(networkAddress, ".")[1])
    IN  IF first >= 192 THEN 24 ELSE IF first >= 128 THEN 16 ELSE 8

\* variant: the mask is validated before the address
calculate_MaskCheckedFirst(ipAddress, subnetMask) ==
    IF ~isValidIPv4(subnetMask) THEN Throw("Invalid subnet mask")
    ELSE IF ~isValidIPv4(ipAddress) THEN Throw("Invalid IP address")
    ELSE LET cidr == subnetMaskToCIDR(subnetMask).value
             wildcardMask == calculateWildcardMask(subnetMask)
             networkAddress == calculateNetworkAddress(ipAddress, subnetMask)
             broadcastAddress == calculateBroadcastAddress(networkAddress, subnetMask)
             hostRange == calculateHostRange(networkAddress, broadcastAddress)
             numberOfHosts == calculateNumberOfHosts(cidr)
         IN  Return([networkAddress |-> networkAddress,
                     subnetMask |-> subnetMask,
                     cidrNotation |-> networkAddress \o <<"/">> \o NumberToString(cidr),
                     wildcardMask |-> wildcardMask,
                     hostRange |-> hostRange,
                     broadcastAddress |-> broadcastAddress,
                     numberOfHosts |-> numberOfHosts,
                     numberOfSubnets |-> [exp2 |-> cidr - OriginalCIDR(networkAddress)]])

\* numberOfSubnets is Math.pow(2, cidr - originalCIDR), a fraction when the
\* exponent is negative: the field holds the exponent.
calculate(ipAddress, subnetMask) ==
    IF ~isValidIPv4(ipAddress) THEN Throw("Invalid IP address")
    ELSE IF ~isValidIPv4(subnetMask) THEN Throw("Invalid subnet mask")
    ELSE LET cidr == subnetMaskToCIDR(subnetMask).value
             wildcardMask == calculateWildcardMask(subnetMask)
             networkAddress == calculateNetworkAddress(ipAddress, subnetMask)
             broadcastAddress == calculateBroadcastAddress(networkAddress, subnetMask)
             hostRange == calculateHostRange(networkAddress, broadcastAddress)
             numberOfHosts == calculateNumberOfHosts(cidr)
         IN  Return([networkAddress |-> networkAddress,
                     subnetMask |-> subnetMask,
                     cidrNotation |-> networkAddress \o <<"/">> \o NumberToString(cidr),
                     wildcardMask |-> wildcardMask,
                     hostRange |-> hostRange,
                     broadcastAddress |-> broadcastAddress,
                     numberOfHosts |-> numberOfHosts,
                     numberOfSubnets |-> [exp2 |-> cidr - OriginalCIDR(networkAddress)]])

calculateFromCIDR(cidr) ==
    IF ~isValidCIDR(cidr) THEN Throw("Invalid CIDR notation")
    ELSE LET parts == Split(cidr, "/")
             prefix == parseInt(parts[2])
             subnetMask == cidrToSubnetMask(prefix)
         IN  IF ~subnetMask.ok THEN subnetMask
             ELSE calculate(parts[1], subnetMask.value)

\* Math.ceil(Math.log2(n)) for n >= 1: the least k with 2^k >= n
RECURSIVE CeilLog2From(_, _)
CeilLog2From(n, k) == IF 2 ^ k >= n THEN k ELSE CeilLog2From(n, k + 1)

\* variant: Math.floor in place of Math.ceil
RECURSIVE FloorLog2From(_, _)
FloorLog2From(n, k) == IF 2 ^ (k + 1) > n THEN k ELSE FloorLog2From(n, k + 1)

CeilLog2_Floor(n) == FloorLog2From(n, 0)

CeilLog2(n) == CeilLog2From(n, 0)

\* variant: the broadcast address is one block size after the subnet address
SubnetDetail_BroadcastOffByOne(networkAddress, subnetSize, i) ==
    LET subnetAddress == addToIP(networkAddress, NumTimes(i, subnetSize)).value
        broadcastAddress == addToIP(subnetAddress, subnetSize).value
        hostRange == addToIP(subnetAddress, NumOfInt(1)).value \o <<" ", "-", " ">> \o
                     addToIP(broadcastAddress, NumOfInt(0 - 1)).value
    IN  [subnetId |-> i + 1,
         subnetAddress |-> subnetAddress,
         hostAddressRange |-> hostRange,
         broadcastAddress |-> broadcastAddress]

\* variant: the identifiers start at 0
SubnetDetail_ZeroBasedId(networkAddress, subnetSize, i) ==
    LET subnetAddress == addToIP(networkAddress, NumTimes(i, subnetSize)).value
        broadcastAddress == addToIP(subnetAddress, NumSub(subnetSize, NumOfInt(1))).value
        hostRange == addToIP(subnetAddress, NumOfInt(1)).value \o <<" ", "-", " ">> \o
                     addToIP(broadcastAddress, NumOfInt(0 - 1)).value
    IN  [subnetId |-> i,
         subnetAddress |-> subnetAddress,
         hostAddressRange |-> hostRange,
         broadcastAddress |-> broadcastAddress]

\* one pass of the loop body, for index i
SubnetDetail(networkAddress, subnetSize, i) ==
    LET subnetAddress == addToIP(networkAddress, NumTimes(i, subnetSize)).value
        broadcastAddress == addToIP(subnetAddress, NumSub(subnetSize, NumOfInt(1))).value
        hostRange == addToIP(subnetAddress, NumOfInt(1)).value \o <<" ", "-", " ">> \o
                     addToIP(broadcastAddress, NumOfInt(0 - 1)).value
    IN  [subnetId |-> i + 1,
         subnetAddress |-> subnetAddress,
         hostAddressRange |-> hostRange,
         broadcastAddress |-> broadcastAddress]

\* { ...subnetInfo, subnetDetails }
WithSubnetDetails(subnetInfo, subnetDetails) ==
    [f \in DOMAIN subnetInfo \cup {"subnetDetails"} |->
        IF f = "subnetDetails" THEN subnetDetails ELSE subnetInfo[f]]

\* desiredSubnets is an integer.  Math.log2 of a negative number is NaN and of
\* zero is -Infinity:
\*   NaN        newCIDR is NaN, NaN > 30 is false, cidrToSubnetMask(NaN) passes
\*              both range tests and returns, actualSubnets is NaN and the loop
\*              condition i < NaN is false: the list is empty;
\*   -Infinity  newCIDR is -Infinity, not above 30, and cidrToSubnetMask
\*              throws on cidr < 0.
calculateSubnets(networkAddress, subnetMask, desiredSubnets) ==
    LET subnetInfo == calculate(networkAddress, subnetMask)
    IN  IF ~subnetInfo.ok THEN subnetInfo
        ELSE IF desiredSubnets < 0
             THEN Return(WithSubnetDetails(subnetInfo.value, <<>>))
        ELSE IF desiredSubnets = 0 THEN Throw("Invalid CIDR prefix")
        ELSE LET cidr == subnetMaskToCIDR(subnetMask).value
                 additionalBits == CeilLog2(desiredSubnets)
                 newCIDR == cidr + additionalBits
             IN  IF newCIDR > 30 THEN Throw("Too many subnets")
                 ELSE LET newSubnetMask == cidrToSubnetMask(newCIDR)
                          subnetSize == NumPow2(32 - newCIDR)
                          actualSubnets == 2 ^ additionalBits
                      IN  IF ~newSubnetMask.ok THEN newSubnetMask
                          ELSE Return(WithSubnetDetails(subnetInfo.value,
                                          [k \in 1..actualSubnets |->
                                              SubnetDetail(networkAddress, subnetSize, k - 1)]))

\* a <= b for two numbers
NumLeq(a, b) == a.hi < b.hi \/ (a.hi = b.hi /\ a.lo <= b.lo)

\* Math.ceil(Math.log2(x)) for a number x >= 1: the least k with 2^k >= x
RECURSIVE CeilLog2NumFrom(_, _)
CeilLog2NumFrom(x, k) == IF NumLeq(x, NumPow2(k)) THEN k ELSE CeilLog2NumFrom(x, k + 1)

CeilLog2Num(x) == CeilLog2NumFrom(x, 0)

\* cidrToSubnetMask(NaN): NaN fails cidr < 0, cidr > 32 and cidr < 32, so the
\* all-ones mask is formatted unchanged
cidrToSubnetMaskOfNaN ==
    LET mask == 0 - 1
    IN  Return(JoinDot(<<UshrByte(mask, 24), UshrByte(mask, 16),
                         UshrByte(mask, 8), UshrByte(mask, 0)>>))

\* hostCount is a number [hi, lo].  Math.log2(hostCount + 2) is NaN below 0
\* (cidr is NaN and passes cidr < 0) and -Infinity at 0 (cidr is +Infinity,
\* which cidrToSubnetMask rejects as above 32).
calculateSubnetMaskFromHostCount(hostCount) ==
    LET x == NumAdd(hostCount, NumOfInt(2))
    IN  IF ~NumLeq(NumOfInt(0), x) THEN cidrToSubnetMaskOfNaN
        ELSE IF x = NumOfInt(0) THEN Throw("Invalid CIDR prefix")
        ELSE LET hostBits == CeilLog2Num(x)
                 cidr == 32 - hostBits
             IN  IF cidr < 0 THEN Throw("Host count exceeds the IPv4 range")
                 ELSE cidrToSubnetMask(cidr)

(***************************************************************************)
(* The web form (InputForm.tsx, App.tsx)                                   *)
(***************************************************************************)
\* the list built by the loop for (let i = prefix; i <= 30; i++)
AvailableSubnetMasks(prefix) ==
    [k \in 1..(IF prefix <= 30 THEN 31 - prefix ELSE 0) |->
        cidrToSubnetMask(prefix + k - 1).value]

\* Math.pow(2, e).toString() for e in -13..30: below 0 the value is
\* 5^-e / 10^-e, written "0." and -e decimals
Pow2ToString(e) ==
    IF e >= 0 THEN NumberToString(2 ^ e)
    ELSE LET digits == NatToString(5 ^ (0 - e))
         IN  <<"0", ".">> \o [i \in 1..((0 - e) - Len(digits)) |-> "0"] \o digits

\* calculateHostAndSubnetCount(mask, originalCidr): the text put in
\* subnetCount, Math.pow(2, subnetCidr - originalCidr).toString(); the
\* exponent is below 0 when the mask is one offered for an earlier CIDR text
SubnetCountText(mask, originalCidr) ==
    Pow2ToString(subnetMaskToCIDR(mask).value - originalCidr)

\* the state of InputForm at mount: the values of useState, and the effect
\* of the first render, on the text of that render, still to run.
\* pendingEffects holds, oldest first, the networkCidr of every render whose
\* effect has not run yet.
MountedForm ==
    [networkCidr |-> JoinDot(<<10, 0, 0, 0>>) \o <<"/", "1", "6">>,
     networkAddress |-> JoinDot(<<10, 0, 0, 0>>),
     subnetMask |-> JoinDot(<<255, 255, 0, 0>>),
     availableSubnetMasks |-> <<>>,
     subnetCount |-> <<>>,
     validCidr |-> TRUE,
     pendingEffects |-> << JoinDot(<<10, 0, 0, 0>>) \o <<"/", "1", "6">> >>]

\* handleNetworkCidrChange: setNetworkCidr only; the render that follows a
\* changed text schedules the effect on that text
FormAfterCidrChange(form, text) ==
    IF text = form.networkCidr THEN form
    ELSE [form EXCEPT !.networkCidr = text,
                      !.pendingEffects = Append(form.pendingEffects, text)]

\* the oldest pending effect runs, on the networkCidr of its own render: a
\* rejected text only clears validCidr
FormAfterEffect(form) ==
    LET networkCidr == Head(form.pendingEffects)
        parts == Split(networkCidr, "/")
        prefix == parseInt(parts[2])
        mask == cidrToSubnetMask(prefix).value
    IN  IF isValidCIDR(networkCidr)
        THEN [form EXCEPT !.validCidr = TRUE,
                          !.networkAddress = parts[1],
                          !.subnetMask = mask,
                          !.availableSubnetMasks = AvailableSubnetMasks(prefix),
                          !.subnetCount = SubnetCountText(mask, prefix),
                          !.pendingEffects = Tail(form.pendingEffects)]
        ELSE [form EXCEPT !.validCidr = FALSE,
                          !.pendingEffects = Tail(form.pendingEffects)]

\* handleSubnetMaskChange
FormAfterSubnetMaskChange(form, newSubnetMask) ==
    IF isValidCIDR(form.networkCidr)
    THEN LET cidrPrefix == parseInt(Split(form.networkCidr, "/")[2])
         IN  [form EXCEPT !.subnetMask = newSubnetMask,
                          !.subnetCount = SubnetCountText(newSubnetMask, cidrPrefix)]
    ELSE [form EXCEPT !.subnetMask = newSubnetMask]

\* the result and error states of App before the first submit: both null
NoAppState == [result |-> NoResult, error |-> NoResult]

\* App after calculateSubnet ended in outcome: setError(null) comes first, a
\* Return is stored by setResult, a Throw by setError, which leaves the
\* result of an earlier submit in place
AppAfterSubmit(app, outcome) ==
    IF outcome.ok THEN [result |-> outcome, error |-> NoResult]
    ELSE [result |-> app.result, error |-> outcome]

\* the index of the first character of s in set cs, 0 when there is none
IndexOfAny(s, cs) ==
    IF \E i \in 1..Len(s) : s[i] \in cs
    THEN CHOOSE i \in 1..Len(s) : s[i] \in cs /\ \A j \in 1..(i - 1) : s[j] \notin cs
    ELSE 0

OnlyDigits(s) == \A i \in 1..Len(s) : IsDigit(s[i])

\* the parts of the text of a number field: sign, integer digits, fraction
\* digits and exponent of a valid floating-point number of HTML,
\* -?(digits(.digits)?|.digits)([eE][+-]?digits)?
NumberFieldParts(text) ==
    LET negative == text # <<>> /\ text[1] = "-"
        body == IF negative THEN Tail(text) ELSE text
        ePos == IndexOfAny(body, {"e", "E"})
        mantissa == IF ePos = 0 THEN body ELSE SubSeq(body, 1, ePos - 1)
        exponent == IF ePos = 0 THEN <<>> ELSE SubSeq(body, ePos + 1, Len(body))
        dot == IndexOfAny(mantissa, {"."})
        expSigned == exponent # <<>> /\ exponent[1] \in {"+", "-"}
    IN  [negative |-> negative,
         integer |-> IF dot = 0 THEN mantissa ELSE SubSeq(mantissa, 1, dot - 1),
         hasDot |-> dot # 0,
         fraction |-> IF dot = 0 THEN <<>> ELSE SubSeq(mantissa, dot + 1, Len(mantissa)),
         hasExp |-> ePos # 0,
         expNegative |-> exponent # <<>> /\ exponent[1] = "-",
         expDigits |-> IF expSigned THEN Tail(exponent) ELSE exponent]

IsValidFloatingPoint(text) ==
    LET n == NumberFieldParts(text)
    IN  /\ OnlyDigits(n.integer) /\ OnlyDigits(n.fraction) /\ OnlyDigits(n.expDigits)
        /\ IF n.hasDot THEN n.fraction # <<>> ELSE n.integer # <<>>
        /\ n.hasExp => n.expDigits # <<>>

\* the constraint of the subnet count field, <input type="number" min="1">
\* in a form without noValidate: an empty field passes; a number passes
\* when it is at least 1 and a whole number of steps of 1 above the minimum;
\* otherwise the browser does not raise the submit event.  The number is
\* digits * 10^scale, and digits has at most nine figures.
SubnetCountAccepted(text) ==
    \/ text = <<>>
    \/ /\ IsValidFloatingPoint(text)
       /\ LET n == NumberFieldParts(text)
              digits == DigitsValue(n.integer \o n.fraction)
              exp == IF n.expNegative THEN 0 - DigitsValue(n.expDigits)
                     ELSE DigitsValue(n.expDigits)
              scale == exp - Len(n.fraction)
          IN  /\ ~n.negative
              /\ IF scale >= 0 THEN digits >= 1
                 ELSE /\ 0 - scale <= 9
                      /\ digits >= 10 ^ (0 - scale)
                      /\ digits % (10 ^ (0 - scale)) = 0

\* App.calculateSubnet: what ends in setError is Throw, what ends in setResult
\* is Return
calculateSubnet(networkAddress, subnetMask, subnetCount) ==
    IF ~isValidIPv4(networkAddress) THEN Throw("Invalid network address")
    ELSE IF ~isValidIPv4(subnetMask) THEN Throw("Invalid subnet mask in form")
    ELSE LET calculationResult == calculate(networkAddress, subnetMask)
         IN  IF ~calculationResult.ok THEN calculationResult
             ELSE IF subnetCount # <<>> /\ ~parseIntNoRadixIsNaN(subnetCount)
                                       /\ parseIntNoRadix(subnetCount) > 0
                  THEN calculateSubnets(networkAddress, subnetMask,
                                        parseIntNoRadix(subnetCount))
                  ELSE calculationResult

(***************************************************************************)
(* The interactive command (cli/src/index.ts)                              *)
(***************************************************************************)
\* the choices built by the loop for (let i = originalCidrPrefix; i <= 30; i++)
MaskOptions(originalCidrPrefix) ==
    [k \in 1..(IF originalCidrPrefix <= 30 THEN 31 - originalCidrPrefix ELSE 0) |->
        LET i == originalCidrPrefix + k - 1
        IN  [mask |-> cidrToSubnetMask(i).value,
             cidr |-> i,
             hosts |-> calculateNumberOfHosts(i),
             subnets |-> 2 ^ (i - originalCidrPrefix)]]

NoMask == [mask |-> <<>>, cidr |-> 0, hosts |-> NumOfInt(0), subnets |-> 0]

\* the locals of the handler before the first prompt is answered;
\* detailsCount and splitCount are the counts handed to calculateSubnets for
\* the detail table and for the later split, 0 while it has not been called
NoAnswers ==
    [ipAddress |-> <<>>, originalCidrPrefix |-> 0, maskOptions |-> <<>>,
     selectedMask |-> NoMask, detailsCount |-> 0, splitCount |-> 0]

\* the counts typed at the limit prompt: the default 16, 0 ("all") and -1,
\* which validate rejects
LimitAnswers == {0 - 1, 0, 16}

\* the counts typed at the count prompt: the default 4 and 0, which validate
\* rejects
SplitAnswers == {0, 4}

Min(a, b) == IF a <= b THEN a ELSE b

(***************************************************************************)
(* Inputs                                                                  *)
(***************************************************************************)
MaxCidrArg == 34

MaxDesiredSubnets == 9

MaxHostCountBits == 33

CidrArgs == (0 - 2)..MaxCidrArg

DesiredSubnetCounts == ((0 - 2)..MaxDesiredSubnets) \cup {16}

\* the octets of the contiguous mask of prefix p, written out octet by octet
PrefixOctets(p) ==
    [j \in 1..4 |->
        IF p >= 8 * j THEN 255
        ELSE IF p <= 8 * (j - 1) THEN 0
        ELSE 256 - 2 ^ (8 * j - p)]

AddressOctets ==
    { <<0, 0, 0, 0>>, <<0, 0, 0, 255>>, <<10, 0, 0, 0>>, <<10, 0, 0, 255>>,
      <<10, 1, 2, 3>>, <<127, 255, 255, 255>>, <<128, 0, 0, 0>>,
      <<172, 16, 0, 0>>, <<192, 168, 1, 0>>, <<192, 168, 1, 77>>,
      <<255, 255, 255, 252>>, <<255, 255, 255, 254>>, <<255, 255, 255, 255>> }

\* "010.0.0.0" and "192.168.001.000" (accepted), "999.1.1.1", "1.2.3",
\* "1.2.3.4.5", "1..2.3", "-1.2.3.4", "a.b.c.d", " 10.0.0.0" (rejected)
OtherAddressTexts ==
    { <<"0", "1", "0", ".", "0", ".", "0", ".", "0">>,
      <<"1", "9", "2", ".", "1", "6", "8", ".", "0", "0", "1", ".", "0", "0", "0">>,
      <<"9", "9", "9", ".", "1", ".", "1", ".", "1">>,
      <<"1", ".", "2", ".", "3">>,
      <<"1", ".", "2", ".", "3", ".", "4", ".", "5">>,
      <<"1", ".", ".", "2", ".", "3">>,
      <<"-", "1", ".", "2", ".", "3", ".", "4">>,
      <<"a", ".", "b", ".", "c", ".", "d">>,
      <<" ", "1", "0", ".", "0", ".", "0", ".", "0">> }

AddressTexts == { JoinDot(o) : o \in AddressOctets } \cup OtherAddressTexts

\* the addresses handed to calculateSubnets: block starts, a host inside a
\* block, the top of the address space, "010.0.0.0" and "999.1.1.1"
SubnetBaseTexts ==
    { JoinDot(o) : o \in { <<0, 0, 0, 0>>, <<10, 0, 0, 0>>, <<128, 0, 0, 0>>,
                           <<192, 168, 1, 0>>, <<192, 168, 1, 77>>,
                           <<255, 255, 255, 252>>, <<255, 255, 255, 254>> } }
    \cup { <<"0", "1", "0", ".", "0", ".", "0", ".", "0">>,
           <<"9", "9", "9", ".", "1", ".", "1", ".", "1">> }

\* masks that are not a prefix: "255.0.255.0", "0.0.0.255", "255.255.255.253";
\* and texts that are no address: "255.255.255.256", "255.255.255"
OtherMaskTexts ==
    { JoinDot(<<255, 0, 255, 0>>), JoinDot(<<0, 0, 0, 255>>),
      JoinDot(<<255, 255, 255, 253>>), JoinDot(<<255, 255, 255, 256>>),
      <<"2", "5", "5", ".", "2", "5", "5", ".", "2", "5", "5">> }

MaskTexts == { JoinDot(PrefixOctets(p)) : p \in 0..32 } \cup OtherMaskTexts

\* "10.0.0.0/24abc", "10.0.0.0/", "10.0.0.0", "10.0.0.0/-1", "10.0.0.0/8/8"
OtherCidrTexts ==
    LET a == JoinDot(<<10, 0, 0, 0>>)
    IN  { a \o <<"/", "2", "4", "a", "b", "c">>, a \o <<"/">>, a,
          a \o <<"/", "-", "1">>, a \o <<"/", "8", "/", "8">> }

CidrTexts ==
    { JoinDot(o) \o <<"/">> \o NumberToString(p) : o \in AddressOctets, p \in 0..33 }
        \cup OtherCidrTexts

\* the host counts 2^k - 4 .. 2^k around every power of two, and 1000
HostCounts ==
    { NumAdd(NumPow2(k), NumOfInt(0 - d)) : k \in 0..MaxHostCountBits, d \in 0..4 }
        \cup { NumOfInt(1000) }

\* groups of characters tried as one octet of an address text
OctetGroups ==
    { <<"0">>,
      <<"0", "0">>,
      <<"0", "0", "0">>,
      <<"0", "0", "0", "0">>,
      <<"7">>,
      <<"0", "7">>,
      <<"0", "0", "7">>,
      <<"0", "0", "0", "7">>,
      <<"1", "0">>,
      <<"0", "1", "0">>,
      <<"9", "9">>,
      <<"1", "0", "0">>,
      <<"1", "9", "9">>,
      <<"2", "0", "0">>,
      <<"2", "4", "9">>,
      <<"2", "5", "0">>,
      <<"2", "5", "5">>,
      <<"2", "5", "6">>,
      <<"2", "6", "0">>,
      <<"2", "9", "9">>,
      <<"3", "0", "0">>,
      <<"9", "9", "9">>,
      <<"1", "0", "0", "0">>,
      <<>>,
      <<"-", "1">>,
      <<"+", "1">>,
      <<"a">>,
      <<"1", "a">>,
      <<" ", "1">>,
      <<"1", " ">> }

\* an address text with the group g at position i and "10" elsewhere
TextWithGroup(g, i) ==
    LET part(j) == IF j = i THEN g ELSE <<"1", "0">>
    IN  part(1) \o <<".">> \o part(2) \o <<".">> \o part(3) \o <<".">> \o part(4)

\* texts with too few or too many groups, or with characters around them
MalformedTexts ==
    { <<>>,
      <<"1", ".", "2", ".", "3">>,
      <<"1", ".", "2", ".", "3", ".", "4", ".", "5">>,
      <<"1", ".", "2", ".", "3", ".", "4", ".">>,
      <<".", "1", ".", "2", ".", "3", ".", "4">>,
      <<"1", ".", ".", "2", ".", "3">>,
      <<"1", ".", "2", ".", "3", ".", "4", "\n">>,
      <<"1", ",", "2", ",", "3", ",", "4">>,
      <<"1", ".", "2", ".", "3", "/", "4">>,
      <<"1", ".", "2", ".", "3", ".", "4", " ">> }

ValidityTexts ==
    { TextWithGroup(g, i) : g \in OctetGroups, i \in 1..4 }
        \cup MalformedTexts \cup AddressTexts

\* more texts for isValidCIDR: "10.0.0.0/3.5", "10.0.0.0/ 24", "10.0.0.0/+24",
\* "10.0.0.0/032", "10.0.0.0/-0", "10.0.0.0/abc", "999.0.0.0/24", ..., and
\* a tab, a line break and U+00A0 before the prefix
MoreCidrTexts ==
    { <<"1", "0", ".", "0", ".", "0", ".", "0", "/", "3", ".", "5">>,
      <<"1", "0", ".", "0", ".", "0", ".", "0", "/", " ", "2", "4">>,
      <<"1", "0", ".", "0", ".", "0", ".", "0", "/", "+", "2", "4">>,
      <<"1", "0", ".", "0", ".", "0", ".", "0", "/", "0", "3", "2">>,
      <<"1", "0", ".", "0", ".", "0", ".", "0", "/", "-", "0">>,
      <<"1", "0", ".", "0", ".", "0", ".", "0", "/", "a", "b", "c">>,
      <<"9", "9", "9", ".", "0", ".", "0", ".", "0", "/", "2", "4">>,
      <<"1", "0", ".", "0", ".", "0", "/", "2", "4">>,
      <<"1", "0", ".", "0", ".", "0", ".", "0", "/", "/", "2", "4">>,
      <<"/", "2", "4">>,
      <<"1", "0", ".", "0", ".", "0", ".", "0", "/", "2", "4", " ">>,
      <<"1", "0", ".", "0", ".", "0", ".", "0", "/", "\t", "2", "4">>,
      <<"1", "0", ".", "0", ".", "0", ".", "0", "/", "\r", "\n", "8">>,
      <<"1", "0", ".", "0", ".", "0", ".", "0", "/", " ", "2", "4">> }

ValidityCidrTexts == CidrTexts \cup MoreCidrTexts

\* the offsets handed to addToIP: 0 and, around 1, 2^8, 2^16, 2^24, 2^31,
\* 2^32, 2^33 and 2^40, the three numbers next to each, with both signs
BigOffsets ==
    { NumAdd(NumPow2(k), NumOfInt(d)) : k \in {0, 8, 16, 24, 31, 32, 33, 40}, d \in {0 - 1, 0, 1} }

Offsets == BigOffsets \cup { NumSub(NumOfInt(0), x) : x \in BigOffsets }

\* the CIDR texts typed at the CIDR prompt: blocks of
\* prefix 12, 16, 24 and 30, a host address with prefix 24, "10.0.0.0/24abc"
\* and "10.0.0.0/<tab>24", which isValidCIDR accepts, and "10.0.0.0/33",
\* which it rejects
FlowCidrTexts ==
    { JoinDot(<<172, 16, 0, 0>>) \o <<"/", "1", "2">>,
      JoinDot(<<10, 0, 0, 0>>) \o <<"/", "1", "6">>,
      JoinDot(<<192, 168, 1, 0>>) \o <<"/", "2", "4">>,
      JoinDot(<<192, 168, 1, 77>>) \o <<"/", "2", "4">>,
      JoinDot(<<192, 168, 1, 0>>) \o <<"/", "3", "0">>,
      JoinDot(<<10, 0, 0, 0>>) \o <<"/", "2", "4", "a", "b", "c">>,
      JoinDot(<<10, 0, 0, 0>>) \o <<"/", "\t", "2", "4">>,
      JoinDot(<<10, 0, 0, 0>>) \o <<"/", "3", "3">> }

\* the CIDR texts typed into the web form: the text the form is mounted
\* with, "10.0.0.0/<tab>28", which isValidCIDR accepts, and "10.0.0.0/33",
\* which it rejects
FormCidrTexts ==
    { JoinDot(<<10, 0, 0, 0>>) \o <<"/", "1", "6">>,
      JoinDot(<<10, 0, 0, 0>>) \o <<"/", "\t", "2", "8">>,
      JoinDot(<<10, 0, 0, 0>>) \o <<"/", "3", "3">> }

\* the user of the web form picks among the first MaxMaskChoice masks on
\* offer
MaxMaskChoice == 3

\* the user of the web form changes the CIDR text while fewer than
\* MaxPendingEffects effects are still to run
MaxPendingEffects == 3

\* the texts typed into the subnet count field: empty, "0", "1e2" and "4.0"
SubnetCountTexts == { <<>>, <<"0">>, <<"1", "e", "2">>, <<"4", ".", "0">> }

(***************************************************************************)
(* One call of the library per behaviour: Init draws the operation and its *)
(* inputs, the action of the operation applies it.                         *)
(***************************************************************************)
\* the library calls
InitCall ==
    /\ \/ \E p \in CidrArgs : op = "cidrToSubnetMask" /\ arg = [cidr |-> p]
       \/ \E m \in MaskTexts : op = "subnetMaskToCIDR" /\ arg = [subnetMask |-> m]
       \/ \E p \in 0..32 : op = "calculateNumberOfHosts" /\ arg = [cidr |-> p]
       \/ \E h \in HostCounts :
             op = "calculateSubnetMaskFromHostCount" /\ arg = [hostCount |-> h]
       \/ \E c \in ValidityCidrTexts : op = "calculateFromCIDR" /\ arg = [cidr |-> c]
       \/ \E c \in ValidityCidrTexts : op = "isValidCIDR" /\ arg = [cidr |-> c]
       \/ \E t \in ValidityTexts : op = "isValidIPv4" /\ arg = [ip |-> t]
       \/ \E t \in ValidityTexts : op = "parseIPv4" /\ arg = [ip |-> t]
       \/ \E a \in AddressTexts, v \in Offsets :
             op = "addToIP" /\ arg = [ip |-> a, value |-> v]
       \/ \E a \in AddressTexts, b \in AddressTexts :
             op = "ipDifference" /\ arg = [ip1 |-> a, ip2 |-> b]
       \/ \E a \in AddressTexts, m \in MaskTexts :
             op = "calculate" /\ arg = [ipAddress |-> a, subnetMask |-> m]
       \/ \E a \in SubnetBaseTexts, m \in MaskTexts, n \in DesiredSubnetCounts :
             /\ op = "calculateSubnets"
             /\ arg = [networkAddress |-> a, subnetMask |-> m, desiredSubnets |-> n]

Init ==
    \/ pc = "effect" /\ op = "webForm" /\ arg = MountedForm /\ res = NoAppState
    \/ pc = "cidrInput" /\ op = "interactive" /\ arg = NoAnswers /\ res = NoResult
    \/ pc = "call" /\ InitCall /\ res = NoResult

CallCidrToSubnetMask ==
    /\ pc = "call" /\ op = "cidrToSubnetMask"
    /\ res' = cidrToSubnetMask(arg.cidr)
    /\ pc' = "done"
    /\ UNCHANGED <<op, arg>>

CallSubnetMaskToCIDR ==
    /\ pc = "call" /\ op = "subnetMaskToCIDR"
    /\ res' = subnetMaskToCIDR(arg.subnetMask)
    /\ pc' = "done"
    /\ UNCHANGED <<op, arg>>

\* the mask that cidrToSubnetMask returned is handed to subnetMaskToCIDR
MaskBackToCIDR ==
    /\ pc = "done" /\ op = "cidrToSubnetMask" /\ res.ok
    /\ op' = "subnetMaskToCIDR"
    /\ arg' = [subnetMask |-> res.value]
    /\ res' = subnetMaskToCIDR(res.value)
    /\ pc' = "done"

CallCalculateNumberOfHosts ==
    /\ pc = "call" /\ op = "calculateNumberOfHosts"
    /\ res' = Return(calculateNumberOfHosts(arg.cidr))
    /\ pc' = "done"
    /\ UNCHANGED <<op, arg>>

CallCalculateFromCIDR ==
    /\ pc = "call" /\ op = "calculateFromCIDR"
    /\ res' = calculateFromCIDR(arg.cidr)
    /\ pc' = "done"
    /\ UNCHANGED <<op, arg>>

CallCalculate ==
    /\ pc = "call" /\ op = "calculate"
    /\ res' = calculate(arg.ipAddress, arg.subnetMask)
    /\ pc' = "done"
    /\ UNCHANGED <<op, arg>>

CallCalculateSubnets ==
    /\ pc = "call" /\ op = "calculateSubnets"
    /\ res' = calculateSubnets(arg.networkAddress, arg.subnetMask, arg.desiredSubnets)
    /\ pc' = "done"
    /\ UNCHANGED <<op, arg>>

CallCalculateSubnetMaskFromHostCount ==
    /\ pc = "call" /\ op = "calculateSubnetMaskFromHostCount"
    /\ res' = calculateSubnetMaskFromHostCount(arg.hostCount)
    /\ pc' = "done"
    /\ UNCHANGED <<op, arg>>

CallIsValidIPv4 ==
    /\ pc = "call" /\ op = "isValidIPv4"
    /\ res' = Return(isValidIPv4(arg.ip))
    /\ pc' = "done"
    /\ UNCHANGED <<op, arg>>

CallIsValidCIDR ==
    /\ pc = "call" /\ op = "isValidCIDR"
    /\ res' = Return(isValidCIDR(arg.cidr))
    /\ pc' = "done"
    /\ UNCHANGED <<op, arg>>

CallParseIPv4 ==
    /\ pc = "call" /\ op = "parseIPv4"
    /\ res' = parseIPv4(arg.ip)
    /\ pc' = "done"
    /\ UNCHANGED <<op, arg>>

CallAddToIP ==
    /\ pc = "call" /\ op = "addToIP"
    /\ res' = addToIP(arg.ip, arg.value)
    /\ pc' = "done"
    /\ UNCHANGED <<op, arg>>

CallIpDifference ==
    /\ pc = "call" /\ op = "ipDifference"
    /\ res' = ipDifference(arg.ip1, arg.ip2)
    /\ pc' = "done"
    /\ UNCHANGED <<op, arg>>

\* the address addToIP returned is compared with the address it was given
DifferenceAfterAdd ==
    /\ pc = "done" /\ op = "addToIP" /\ res.ok
    /\ op' = "ipDifference"
    /\ arg' = [ip1 |-> arg.ip, ip2 |-> res.value]
    /\ res' = ipDifference(arg.ip, res.value)
    /\ pc' = "done"

\* the user types a CIDR text into the form; a text that differs from
\* networkCidr schedules an effect
HandleNetworkCidrChange ==
    /\ pc \in {"form", "effect"} /\ op = "webForm"
    /\ \E text \in FormCidrTexts :
          /\ text # arg.networkCidr => Len(arg.pendingEffects) < MaxPendingEffects
          /\ arg' = FormAfterCidrChange(arg, text)
    /\ pc' = IF arg'.pendingEffects = <<>> THEN "form" ELSE "effect"
    /\ UNCHANGED <<op, res>>

\* the oldest pending effect on networkCidr runs: the one of the mount, then
\* one for each change of networkCidr
NetworkCidrEffect ==
    /\ pc = "effect" /\ op = "webForm"
    /\ arg' = FormAfterEffect(arg)
    /\ pc' = IF arg'.pendingEffects = <<>> THEN "form" ELSE "effect"
    /\ UNCHANGED <<op, res>>

\* the user picks one of the masks on offer; the select is disabled while
\* the CIDR text is rejected
HandleSubnetMaskChange ==
    /\ pc \in {"form", "effect"} /\ op = "webForm"
    /\ arg.validCidr
    /\ \E k \in 1..Min(MaxMaskChoice, Len(arg.availableSubnetMasks)) :
          arg' = FormAfterSubnetMaskChange(arg, arg.availableSubnetMasks[k])
    /\ UNCHANGED <<pc, op, res>>

\* the user types into the subnet count field
HandleSubnetCountChange ==
    /\ pc \in {"form", "effect"} /\ op = "webForm"
    /\ \E text \in SubnetCountTexts : arg' = [arg EXCEPT !.subnetCount = text]
    /\ UNCHANGED <<pc, op, res>>

\* handleSubmit hands the form to App.calculateSubnet, and the form stays
\* mounted afterwards.  The button is disabled while the CIDR text is
\* rejected, and the browser raises no submit event while a field fails its
\* constraint: the required CIDR text is empty, the required select has no
\* option, or the subnet count is below its minimum.
HandleSubmit ==
    /\ pc \in {"form", "effect"} /\ op = "webForm"
    /\ arg.validCidr
    /\ arg.networkCidr # <<>>
    /\ arg.availableSubnetMasks # <<>>
    /\ SubnetCountAccepted(arg.subnetCount)
    /\ res' = AppAfterSubmit(res, calculateSubnet(arg.networkAddress, arg.subnetMask,
                                                  arg.subnetCount))
    /\ UNCHANGED <<pc, op, arg>>

\* the CIDR prompt: validate lets only texts isValidCIDR accepts through
AnswerCidrInput ==
    /\ pc = "cidrInput" /\ op = "interactive"
    /\ \E cidrInput \in FlowCidrTexts :
          /\ isValidCIDR(cidrInput)
          /\ LET parts == Split(cidrInput, "/")
                 originalCidrPrefix == parseInt(parts[2])
             IN  arg' = [arg EXCEPT !.ipAddress = parts[1],
                                    !.originalCidrPrefix = originalCidrPrefix,
                                    !.maskOptions = MaskOptions(originalCidrPrefix)]
    /\ pc' = "selectedMask"
    /\ UNCHANGED <<op, res>>

\* the mask prompt and the summary of calculate; a count of 2..16 goes on to
\* the detail table, a count above 16 to the confirmation prompt; an
\* exception ends the handler in its catch
AnswerSelectedMask ==
    /\ pc = "selectedMask" /\ op = "interactive"
    /\ \E k \in 1..Len(arg.maskOptions) :
          LET selectedMask == arg.maskOptions[k]
              auto == selectedMask.subnets > 1 /\ selectedMask.subnets <= 16
          IN  /\ res' = calculate(arg.ipAddress, selectedMask.mask)
              /\ arg' = [arg EXCEPT !.selectedMask = selectedMask,
                                    !.detailsCount =
                                        IF res'.ok /\ auto THEN selectedMask.subnets ELSE 0]
              /\ pc' = IF ~res'.ok THEN "done"
                       ELSE IF auto THEN "subnetDetails"
                       ELSE IF selectedMask.subnets > 16 THEN "showSubnetDetails"
                       ELSE "wantSubnets"
    /\ UNCHANGED op

\* the confirmation prompt: a no goes on to the split prompt, a yes to the
\* limit prompt
AnswerShowSubnetDetails ==
    /\ pc = "showSubnetDetails" /\ op = "interactive"
    /\ \E showSubnetDetails \in BOOLEAN :
          pc' = IF showSubnetDetails THEN "limitSubnets" ELSE "wantSubnets"
    /\ UNCHANGED <<op, arg, res>>

\* the limit prompt: validate lets only answers from 0 on through
AnswerLimitSubnets ==
    /\ pc = "limitSubnets" /\ op = "interactive"
    /\ \E limit \in LimitAnswers :
          /\ limit >= 0
          /\ LET subnetCount == IF limit = 0 THEN arg.selectedMask.subnets
                                ELSE Min(limit, arg.selectedMask.subnets)
             IN  arg' = [arg EXCEPT !.detailsCount = subnetCount]
    /\ pc' = "subnetDetails"
    /\ UNCHANGED <<op, res>>

\* the split prompt: a no ends the command, a yes goes on to the count prompt
AnswerWantSubnets ==
    /\ pc = "wantSubnets" /\ op = "interactive"
    /\ \E wantSubnets \in BOOLEAN :
          pc' = IF wantSubnets THEN "subnetCount" ELSE "done"
    /\ UNCHANGED <<op, arg, res>>

\* the count prompt: validate lets only answers above 0 through
AnswerSubnetCount ==
    /\ pc = "subnetCount" /\ op = "interactive"
    /\ \E count \in SplitAnswers :
          /\ count > 0
          /\ arg' = [arg EXCEPT !.splitCount = count]
    /\ pc' = "subnetDetails"
    /\ UNCHANGED <<op, res>>

\* the call of calculateSubnets that follows each of the three count
\* decisions, with the count decided last
DisplaySubnetDetails ==
    /\ pc = "subnetDetails" /\ op = "interactive"
    /\ res' = calculateSubnets(arg.ipAddress, arg.selectedMask.mask,
                               IF arg.splitCount > 0 THEN arg.splitCount
                               ELSE arg.detailsCount)
    /\ pc' = IF res'.ok /\ arg.splitCount = 0 THEN "wantSubnets" ELSE "done"
    /\ UNCHANGED <<op, arg>>

Next ==
    \/ CallCidrToSubnetMask
    \/ CallSubnetMaskToCIDR
    \/ MaskBackToCIDR
    \/ CallCalculateNumberOfHosts
    \/ CallCalculateFromCIDR
    \/ CallCalculate
    \/ CallCalculateSubnets
    \/ CallCalculateSubnetMaskFromHostCount
    \/ CallIsValidIPv4
    \/ CallIsValidCIDR
    \/ CallParseIPv4
    \/ CallAddToIP
    \/ CallIpDifference
    \/ DifferenceAfterAdd
    \/ HandleNetworkCidrChange
    \/ NetworkCidrEffect
    \/ HandleSubnetMaskChange
    \/ HandleSubnetCountChange
    \/ HandleSubmit
    \/ AnswerCidrInput
    \/ AnswerSelectedMask
    \/ AnswerShowSubnetDetails
    \/ AnswerLimitSubnets
    \/ AnswerWantSubnets
    \/ AnswerSubnetCount
    \/ DisplaySubnetDetails

Spec == Init /\ [][Next]_vars

(***************************************************************************)
(* Vocabulary of the properties: a 32-bit unsigned value is [hi, lo] with  *)
(* both halves in 0..65535.                                                *)
(***************************************************************************)
\* the unsigned value a dotted-decimal text denotes
U(text) ==
    LET o == OctetsOf(text) IN [hi |-> o[1] * 256 + o[2], lo |-> o[3] * 256 + o[4]]

\* the dotted-decimal form of a 32-bit unsigned value
Dotted(v) == JoinDot(<<v.hi \div 256, v.hi % 256, v.lo \div 256, v.lo % 256>>)

\* bit i of v, bit 0 the least significant
BitOf(v, i) == IF i < 16 THEN (v.lo \div (2 ^ i)) % 2 ELSE (v.hi \div (2 ^ (i - 16))) % 2

ULeq(a, b) == a.hi < b.hi \/ (a.hi = b.hi /\ a.lo <= b.lo)

ULess(a, b) == a.hi < b.hi \/ (a.hi = b.hi /\ a.lo < b.lo)

\* (v + d) mod 2^32 for an integer d
UPlus(v, d) ==
    LET l == v.lo + d
    IN  [hi |-> (v.hi + (l \div 65536)) % 65536, lo |-> l % 65536]

\* (a + b) mod 2^32 and (a - b) mod 2^32
UAdd(a, b) == UPlus([hi |-> (a.hi + b.hi) % 65536, lo |-> a.lo], b.lo)

USub(a, b) == UPlus([hi |-> (a.hi - b.hi) % 65536, lo |-> a.lo], 0 - b.lo)

\* i * 2^(32 - q) mod 2^32, for q in 0..32 and a small i
UBlocks(i, q) ==
    IF q <= 16 THEN [hi |-> (i * 2 ^ (16 - q)) % 65536, lo |-> 0]
    ELSE UPlus([hi |-> 0, lo |-> 0], i * 2 ^ (32 - q))

PopCount(v) == Cardinality({ i \in 0..31 : BitOf(v, i) = 1 })

\* v with its low 32 - p bits cleared, and with them set
LowCleared(v, p) ==
    IF p >= 16 THEN [hi |-> v.hi, lo |-> v.lo - (v.lo % (2 ^ (32 - p)))]
    ELSE [hi |-> v.hi - (v.hi % (2 ^ (16 - p))), lo |-> 0]

LowSet(v, p) ==
    IF p >= 16 THEN [hi |-> v.hi, lo |-> LowCleared(v, p).lo + 2 ^ (32 - p) - 1]
    ELSE [hi |-> LowCleared(v, p).hi + 2 ^ (16 - p) - 1, lo |-> 65535]

\* the host count of prefix p: 2^(32-p) - 2 up to 30, then 2 and 1
HostCount(p) ==
    IF p = 32 THEN [hi |-> 0, lo |-> 1]
    ELSE IF p = 31 THEN [hi |-> 0, lo |-> 2]
    ELSE IF p >= 17 THEN [hi |-> 0, lo |-> 2 ^ (32 - p) - 2]
    ELSE [hi |-> 2 ^ (16 - p) - 1, lo |-> 65534]

IsContiguousMask(text) ==
    isValidIPv4(text) /\ \E p \in 0..32 : OctetsOf(text) = PrefixOctets(p)

AllDigits(s) == s # <<>> /\ \A i \in 1..Len(s) : IsDigit(s[i])

\* 'A/p': a valid address, one '/', and a decimal prefix in [0,32]
IsCidrText(c) ==
    LET parts == Split(c, "/")
    IN  /\ Len(parts) = 2
        /\ isValidIPv4(parts[1])
        /\ AllDigits(parts[2]) /\ Len(parts[2]) <= 2
        /\ DigitsValue(parts[2]) <= 32

PowersOfTwo == { 2 ^ k : k \in 0..30 }

Log2(n) == CHOOSE k \in 0..30 : 2 ^ k = n

\* the least power of two that is >= n
NextPowerOfTwo(n) == CHOOSE m \in PowersOfTwo : m >= n /\ (m = 1 \/ m \div 2 < n)

Done(o) == pc = "done" /\ op = o

\* the two ends of a member's host range text '<first> - <last>'
RangeFirst(d) == Split(d.hostAddressRange, " ")[1]

RangeLast(d) == Split(d.hostAddressRange, " ")[3]

(***************************************************************************)
(* Properties                                                              *)
(***************************************************************************)
\* C1: for every prefix p in [0,32], cidrToSubnetMask(p) is the dotted-decimal
\* mask whose top p bits are 1 and whose other bits are 0 (0.0.0.0 for p = 0,
\* 255.255.255.255 for p = 32); for p outside [0,32] it fails with an error.
C1_MaskOfPrefix ==
    Done("cidrToSubnetMask") =>
        IF arg.cidr \in 0..32
        THEN res.ok /\ res.value = JoinDot(PrefixOctets(arg.cidr))
        ELSE ~res.ok

\* C2: mask/prefix duality: handing the mask that cidrToSubnetMask(p) returned
\* to subnetMaskToCIDR gives p back, for every prefix p in [0,32].
C2_MaskPrefixDuality ==
    [][(Done("cidrToSubnetMask") /\ res.ok /\ op' = "subnetMaskToCIDR")
          => (res'.ok /\ res'.value = arg.cidr)]_vars

\* C3: for every CIDR text 'A/p' with p in [0,32], calculateFromCIDR returns
\* the block of prefix p that contains A: the mask with p leading 1 bits, A
\* with its low 32-p bits cleared as network address and set as broadcast
\* address, '<networkAddress>/p' as cidrNotation and the host count of p.
C3_BlockOfCidrText ==
    (Done("calculateFromCIDR") /\ IsCidrText(arg.cidr)) =>
        LET parts == Split(arg.cidr, "/")
            a == U(parts[1])
            p == DigitsValue(parts[2])
        IN  /\ res.ok
            /\ res.value.subnetMask = JoinDot(PrefixOctets(p))
            /\ res.value.networkAddress = Dotted(LowCleared(a, p))
            /\ res.value.broadcastAddress = Dotted(LowSet(a, p))
            /\ res.value.cidrNotation =
                  Dotted(LowCleared(a, p)) \o <<"/">> \o NatToString(p)
            /\ res.value.numberOfHosts = HostCount(p)

\* C4: for every valid address and valid dotted-decimal mask, calculate
\* returns networkAddress = address AND mask and broadcastAddress =
\* networkAddress OR (NOT mask), bit by bit over 32 bits; so networkAddress
\* AND mask = networkAddress and networkAddress <= address <= broadcastAddress
\* as unsigned 32-bit integers.
C4_NetworkAndBroadcast ==
    (Done("calculate") /\ isValidIPv4(arg.ipAddress) /\ isValidIPv4(arg.subnetMask)) =>
        /\ res.ok
        /\ LET a == U(arg.ipAddress)
               m == U(arg.subnetMask)
               n == U(res.value.networkAddress)
               b == U(res.value.broadcastAddress)
           IN  /\ res.value.networkAddress = Dotted(n)
               /\ res.value.broadcastAddress = Dotted(b)
               /\ \A i \in 0..31 :
                     /\ BitOf(n, i) = BitOf(a, i) * BitOf(m, i)
                     /\ BitOf(b, i) = (IF BitOf(m, i) = 0 THEN 1 ELSE BitOf(n, i))
                     /\ BitOf(n, i) * BitOf(m, i) = BitOf(n, i)
               /\ ULeq(n, a) /\ ULeq(a, b)

\* a call of calculate on a host address inside a block: the network address
\* and the broadcast address both differ from the address
C4_Witness ==
    /\ Done("calculate") /\ res.ok
    /\ arg.ipAddress = JoinDot(<<192, 168, 1, 77>>)
    /\ arg.subnetMask = JoinDot(<<255, 255, 255, 0>>)
    /\ res.value.networkAddress = JoinDot(<<192, 168, 1, 0>>)
    /\ res.value.broadcastAddress = JoinDot(<<192, 168, 1, 255>>)

\* C5: in every SubnetInfo that calculate returns, hostRange.first is the
\* dotted-decimal form of (networkAddress + 1) mod 2^32 and hostRange.last
\* that of (broadcastAddress - 1) mod 2^32, with carry and borrow across
\* octets, so that every octet of both is in [0,255].  Stated for the masks
\* that are a prefix (31 and 32 included).
C5_HostRangeCarries ==
    (Done("calculate") /\ res.ok /\ IsContiguousMask(arg.subnetMask)) =>
        /\ res.value.hostRange.first = Dotted(UPlus(U(res.value.networkAddress), 1))
        /\ res.value.hostRange.last = Dotted(UPlus(U(res.value.broadcastAddress), 0 - 1))
        /\ isValidIPv4(res.value.hostRange.first)
        /\ isValidIPv4(res.value.hostRange.last)

\* C6: calculateNumberOfHosts(p) is 2^(32-p) - 2 for p in [0,30], 2 for
\* p = 31 and 1 for p = 32, and the numberOfHosts that calculate returns is
\* this value for the number of 1 bits of the given mask.
C6_NumberOfHosts ==
    /\ Done("calculateNumberOfHosts") => (res.ok /\ res.value = HostCount(arg.cidr))
    /\ (Done("calculate") /\ res.ok) =>
          res.value.numberOfHosts = HostCount(PopCount(U(arg.subnetMask)))

\* calculate on a /30 mask reports 2 hosts
C6_Witness ==
    /\ Done("calculate") /\ res.ok
    /\ arg.subnetMask = JoinDot(<<255, 255, 255, 252>>)
    /\ res.value.numberOfHosts = NumOfInt(2)

\* C7: for a block given by its network address N and a contiguous mask of
\* prefix p, and a power of two n with p + log2(n) <= 30, calculateSubnets
\* returns exactly n members whose ranges [subnetAddress, broadcastAddress]
\* are equally sized, pairwise disjoint, contiguous (each starts one after
\* the end of the previous one) and cover exactly [networkAddress,
\* broadcastAddress] of the block.
C7_PartitionExhaustive ==
    (/\ Done("calculateSubnets")
     /\ isValidIPv4(arg.networkAddress)
     /\ IsContiguousMask(arg.subnetMask)
     /\ U(arg.networkAddress) =
           LowCleared(U(arg.networkAddress), PopCount(U(arg.subnetMask)))
     /\ arg.desiredSubnets \in PowersOfTwo
     /\ PopCount(U(arg.subnetMask)) + Log2(arg.desiredSubnets) <= 30) =>
        /\ res.ok
        /\ LET d == res.value.subnetDetails
               n == arg.desiredSubnets
               p == PopCount(U(arg.subnetMask))
               lo(k) == U(d[k].subnetAddress)
               hi(k) == U(d[k].broadcastAddress)
           IN  /\ Len(d) = n
               /\ res.value.networkAddress = Dotted(LowCleared(U(arg.networkAddress), p))
               /\ res.value.broadcastAddress = Dotted(LowSet(U(arg.networkAddress), p))
               /\ d[1].subnetAddress = res.value.networkAddress
               /\ d[n].broadcastAddress = res.value.broadcastAddress
               /\ \A k \in 1..n :
                     /\ ULeq(lo(k), hi(k))
                     /\ USub(hi(k), lo(k)) = USub(hi(1), lo(1))
               /\ \A k \in 1..(n - 1) : lo(k + 1) = UPlus(hi(k), 1)
               /\ \A j \in 1..n : \A k \in (j + 1)..n : ULess(hi(j), lo(k))

\* 192.168.1.0/24 split into 8: the last member ends at 192.168.1.255
C7_Witness ==
    /\ Done("calculateSubnets") /\ res.ok
    /\ arg.networkAddress = JoinDot(<<192, 168, 1, 0>>)
    /\ arg.subnetMask = JoinDot(<<255, 255, 255, 0>>)
    /\ arg.desiredSubnets = 8
    /\ Len(res.value.subnetDetails) = 8
    /\ res.value.subnetDetails[2].subnetAddress = JoinDot(<<192, 168, 1, 32>>)
    /\ res.value.subnetDetails[8].broadcastAddress = JoinDot(<<192, 168, 1, 255>>)

\* C8: when calculateSubnets succeeds for a desiredSubnetCount n >= 1, the
\* number of members is the least power of two that is >= n.
C8_PartitionRounding ==
    (Done("calculateSubnets") /\ res.ok /\ arg.desiredSubnets >= 1) =>
        Len(res.value.subnetDetails) = NextPowerOfTwo(arg.desiredSubnets)

\* a request for 5 subnets returns 8 members
C8_Witness ==
    /\ Done("calculateSubnets") /\ res.ok
    /\ arg.desiredSubnets = 5
    /\ Len(res.value.subnetDetails) = 8

\* C9: in every returned list, with S = 2^(32 - newPrefix), the member at
\* 0-based position i has subnetId i + 1, subnetAddress = base address + i*S,
\* broadcastAddress = subnetAddress + S - 1 and hostAddressRange
\* '<subnetAddress + 1> - <broadcastAddress - 1>' (address arithmetic is
\* modulo 2^32).
C9_MemberLayout ==
    (Done("calculateSubnets") /\ res.ok /\ arg.desiredSubnets >= 1) =>
        LET d == res.value.subnetDetails
            q == PopCount(U(arg.subnetMask)) + Log2(Len(d))
            base == U(arg.networkAddress)
        IN  \A k \in 1..Len(d) :
               LET sub == UAdd(base, UBlocks(k - 1, q))
                   bc == UPlus(UAdd(sub, UBlocks(1, q)), 0 - 1)
               IN  /\ d[k].subnetId = k
                   /\ d[k].subnetAddress = Dotted(sub)
                   /\ d[k].broadcastAddress = Dotted(bc)
                   /\ d[k].hostAddressRange =
                         Dotted(UPlus(sub, 1)) \o <<" ", "-", " ">> \o Dotted(UPlus(bc, 0 - 1))

\* 10.0.0.0 with mask 255.255.0.0 and 16 subnets: 16 members of 4096
\* addresses, the first at 10.0.0.0 and the second at 10.0.16.0
C9_Witness ==
    /\ Done("calculateSubnets") /\ res.ok
    /\ arg.networkAddress = JoinDot(<<10, 0, 0, 0>>)
    /\ arg.subnetMask = JoinDot(<<255, 255, 0, 0>>)
    /\ arg.desiredSubnets = 16
    /\ Len(res.value.subnetDetails) = 16
    /\ res.value.subnetDetails[1].subnetAddress = JoinDot(<<10, 0, 0, 0>>)
    /\ res.value.subnetDetails[1].broadcastAddress = JoinDot(<<10, 0, 15, 255>>)
    /\ res.value.subnetDetails[2].subnetAddress = JoinDot(<<10, 0, 16, 0>>)
    /\ res.value.subnetDetails[2].subnetId = 2

\* C10: for a valid address and mask and desiredSubnetCount >= 1,
\* calculateSubnets fails whenever currentPrefix + ceil(log2(count)) > 30 and
\* succeeds otherwise; hence every member of a returned partition holds at
\* least 4 addresses and has host range first <= last.
C10_CapacityLimit ==
    (/\ Done("calculateSubnets")
     /\ isValidIPv4(arg.networkAddress) /\ isValidIPv4(arg.subnetMask)
     /\ arg.desiredSubnets >= 1) =>
        LET q == PopCount(U(arg.subnetMask)) + Log2(NextPowerOfTwo(arg.desiredSubnets))
        IN  /\ res.ok <=> q <= 30
            /\ res.ok =>
                  \A k \in 1..Len(res.value.subnetDetails) :
                     LET d == res.value.subnetDetails[k]
                     IN  /\ ULeq([hi |-> 0, lo |-> 3],
                                 USub(U(d.broadcastAddress), U(d.subnetAddress)))
                         /\ ULeq(U(RangeFirst(d)), U(RangeLast(d)))

\* C11: calculateSubnets requires desiredSubnetCount >= 1: for every valid
\* address and mask and every desiredSubnetCount < 1 (zero and every negative
\* integer) the call fails with an error and returns no result.
C11_CountBelowOneFails ==
    (/\ Done("calculateSubnets")
     /\ isValidIPv4(arg.networkAddress) /\ isValidIPv4(arg.subnetMask)
     /\ arg.desiredSubnets < 1) => ~res.ok

\* the least k with 2^k >= x, for a number x >= 1
CeilLog2Of(x) ==
    CHOOSE k \in 0..46 :
        /\ NumLeq(x, NumPow2(k))
        /\ k > 0 => ~NumLeq(x, NumPow2(k - 1))

\* C12: for every requiredHosts h >= 1, calculateSubnetMaskFromHostCount(h)
\* returns the contiguous mask of prefix 32 - ceil(log2(h + 2)) when that
\* prefix is >= 0, and fails with an error when it is < 0.
C12_MaskFromHostCount ==
    (Done("calculateSubnetMaskFromHostCount") /\ NumLeq(NumOfInt(1), arg.hostCount)) =>
        LET q == 32 - CeilLog2Of(NumAdd(arg.hostCount, NumOfInt(2)))
        IN  IF q >= 0 THEN res.ok /\ res.value = JoinDot(PrefixOctets(q))
            ELSE ~res.ok

\* C19: for every requiredHosts h with 1 <= h <= 2^32 - 2, the mask that
\* calculateSubnetMaskFromHostCount(h) returns describes the smallest block
\* that fits h hosts: with q = subnetMaskToCIDR(mask), 2^(32-q) - 2 >= h and
\* 2^(31-q) - 2 < h; the largest requests, of prefix 0, included.
C19_SmallestFittingBlock ==
    (/\ Done("calculateSubnetMaskFromHostCount")
     /\ NumLeq(NumOfInt(1), arg.hostCount)
     /\ NumLeq(arg.hostCount, [hi |-> 65535, lo |-> 65534])) =>
        /\ res.ok
        /\ subnetMaskToCIDR(res.value).ok
        /\ LET q == subnetMaskToCIDR(res.value).value
           IN  /\ NumLeq(arg.hostCount, NumSub(NumPow2(32 - q), NumOfInt(2)))
               /\ ~NumLeq(arg.hostCount, NumSub(NumPow2(31 - q), NumOfInt(2)))

\* C13: round trip: for every dotted-decimal text T that isValidIPv4 accepts,
\* parsing T and formatting the value back, addToIP(T, 0), returns exactly T.
C13_RoundTrip ==
    (Done("addToIP") /\ isValidIPv4(arg.ip) /\ arg.value = NumOfInt(0)) =>
        (res.ok /\ res.value = arg.ip)

\* the 8-character binary string b denotes the octet o
IsBinaryOf(b, o) ==
    /\ Len(b) = 8
    /\ \A i \in 1..8 : b[i] \in {"0", "1"}
    /\ LET bit(i) == IF b[i] = "1" THEN 1 ELSE 0
       IN  o = 128 * bit(1) + 64 * bit(2) + 32 * bit(3) + 16 * bit(4)
               + 8 * bit(5) + 4 * bit(6) + 2 * bit(7) + bit(8)

\* C14: for every valid address text, parseIPv4 returns four octets in
\* [0,255], binaryOctets equal to their 8-character binary strings, and a
\* decimalValue that is an unsigned integer in [0, 2^32 - 1] equal to
\* o0*2^24 + o1*2^16 + o2*2^8 + o3.
C14_ConsistentRepresentations ==
    (Done("parseIPv4") /\ isValidIPv4(arg.ip)) =>
        /\ res.ok
        /\ Len(res.value.octets) = 4
        /\ \A i \in 1..4 :
              /\ res.value.octets[i] \in 0..255
              /\ IsBinaryOf(res.value.binaryOctets[i], res.value.octets[i])
        /\ res.value.decimalValue >= 0
        /\ NumOfInt(res.value.decimalValue) =
              [hi |-> res.value.octets[1] * 256 + res.value.octets[2],
               lo |-> res.value.octets[3] * 256 + res.value.octets[4]]

\* four groups of decimal digits with a value in 0..255, separated by single
\* '.' characters and nothing else
IsFourGroupsUpTo255(text) ==
    LET parts == Split(text, ".")
    IN  /\ Len(parts) = 4
        /\ \A i \in 1..4 : AllDigits(parts[i]) /\ DigitsValue(parts[i]) <= 255

\* the same, each group of one to three digits
IsFourShortGroupsUpTo255(text) ==
    LET parts == Split(text, ".")
    IN  /\ Len(parts) = 4
        /\ \A i \in 1..4 :
              AllDigits(parts[i]) /\ Len(parts[i]) <= 3 /\ DigitsValue(parts[i]) <= 255

\* C15 as stated: isValidIPv4(text) is true exactly when text is four groups
\* of decimal digits, each with a value in 0..255, separated by single '.'
\* characters and nothing else; parseIPv4 fails for every other text.
C15_ValidExactlyFourGroups ==
    /\ Done("isValidIPv4") => (res.value <=> IsFourGroupsUpTo255(arg.ip))
    /\ Done("parseIPv4") => (res.ok <=> IsFourGroupsUpTo255(arg.ip))

\* C15 as amended: isValidIPv4(text) is true exactly when text is four groups
\* of one to three decimal digits, each with a value in 0..255, separated by
\* single '.' characters and nothing else; parseIPv4 fails with an error for
\* every other text.
C15_ValidExactlyFourShortGroups ==
    /\ Done("isValidIPv4") => (res.value <=> IsFourShortGroupsUpTo255(arg.ip))
    /\ Done("parseIPv4") => (res.ok <=> IsFourShortGroupsUpTo255(arg.ip))

\* "10.10.10.256" is rejected by isValidIPv4
C15_Witness ==
    /\ Done("isValidIPv4")
    /\ arg.ip = TextWithGroup(<<"2", "5", "6">>, 4)
    /\ res.value = FALSE

\* a valid address, one '/', and a prefix that is purely an integer in [0,32]
IsAddressSlashInteger(text) ==
    LET parts == Split(text, "/")
    IN  /\ Len(parts) = 2
        /\ isValidIPv4(parts[1])
        /\ AllDigits(parts[2])
        /\ DigitsValue(parts[2]) <= 32

\* C16: isValidCIDR(text) is true exactly when text is a valid address, one
\* '/', and an integer prefix in [0,32] (false for '10.0.0.0/33',
\* '10.0.0.0/24abc', '10.0.0.0/3.5', '10.0.0.0/'), and calculateFromCIDR fails
\* on every text isValidCIDR rejects.
C16_ValidCidrExactly ==
    /\ Done("isValidCIDR") => (res.value <=> IsAddressSlashInteger(arg.cidr))
    /\ (Done("calculateFromCIDR") /\ ~isValidCIDR(arg.cidr)) => ~res.ok

\* any subnet-count or capacity failure; no result is produced.
C18_FirstViolatedOperand ==
    (Done("calculate") \/ Done("calculateSubnets")) =>
        LET address == IF op = "calculate" THEN arg.ipAddress ELSE arg.networkAddress
        IN  /\ ~isValidIPv4(address) => res = Throw("Invalid IP address")
            /\ (isValidIPv4(address) /\ ~isValidIPv4(arg.subnetMask)) =>
                  res = Throw("Invalid subnet mask")

\* calculateSubnets('999.1.1.1', '255.255.255', 0): both operands are invalid
\* and so is the count; the address error is the one reported
C18_Witness ==
    /\ Done("calculateSubnets")
    /\ arg.networkAddress = <<"9", "9", "9", ".", "1", ".", "1", ".", "1">>
    /\ arg.subnetMask = <<"2", "5", "5", ".", "2", "5", "5", ".", "2", "5", "5">>
    /\ arg.desiredSubnets = 0
    /\ res = Throw("Invalid IP address")

\* C20: for every valid address A (a host address inside the block too),
\* contiguous mask and count for which calculateSubnets succeeds, the first
\* member's subnetAddress is the result's networkAddress and every member's
\* subnetAddress and broadcastAddress lie in [networkAddress,
\* broadcastAddress] of the result.
C20_MembersInsideBlock ==
    (/\ Done("calculateSubnets") /\ res.ok
     /\ IsContiguousMask(arg.subnetMask)
     /\ arg.desiredSubnets >= 1) =>
        LET d == res.value.subnetDetails
            low == U(res.value.networkAddress)
            high == U(res.value.broadcastAddress)
        IN  /\ d[1].subnetAddress = res.value.networkAddress
            /\ \A k \in 1..Len(d) :
                  /\ ULeq(low, U(d[k].subnetAddress))
                  /\ ULeq(U(d[k].subnetAddress), high)
                  /\ ULeq(low, U(d[k].broadcastAddress))
                  /\ ULeq(U(d[k].broadcastAddress), high)

\* |a - b| of two 32-bit unsigned values
UAbsDiff(a, b) == IF ULeq(a, b) THEN USub(b, a) ELSE USub(a, b)

\* C21: for all valid addresses A and B, ipDifference(A, B) is the absolute
\* difference of their unsigned 32-bit values: it lies in [0, 2^32 - 1], is
\* symmetric in A and B, and ipDifference(A, addToIP(A, k)) = k for every k
\* with 0 <= k <= 2^32 - 1 - u(A), also across 128.0.0.0.
C21_AbsoluteDifference ==
    [][/\ (Done("ipDifference")' /\ isValidIPv4(arg'.ip1) /\ isValidIPv4(arg'.ip2)) =>
             /\ res'.ok
             /\ res'.value.hi \in 0..65535 /\ res'.value.lo \in 0..65535
             /\ res'.value = UAbsDiff(U(arg'.ip1), U(arg'.ip2))
             /\ res' = ipDifference(arg'.ip2, arg'.ip1)
       /\ (/\ Done("addToIP") /\ op' = "ipDifference"
           /\ NumLeq(NumOfInt(0), arg.value)
           /\ NumLeq(NumAdd(arg.value, U(arg.ip)), [hi |-> 65535, lo |-> 65535])) =>
             (res'.ok /\ res'.value = arg.value)]_vars

\* the outcome r lists 2^(q-p) blocks of prefix q that cover, in order, the
\* block of prefix p that holds address a
ListsTheBlock(r, a, p, q) ==
    /\ r.ok
    /\ "subnetDetails" \in DOMAIN r.value
    /\ LET d == r.value.subnetDetails
           base == LowCleared(U(a), p)
       IN  /\ Len(d) = 2 ^ (q - p)
           /\ \A k \in 1..Len(d) :
                 /\ d[k].subnetAddress = Dotted(UAdd(base, UBlocks(k - 1, q)))
                 /\ d[k].broadcastAddress = Dotted(LowSet(U(d[k].subnetAddress), q))

\* C22: in the web form and in the interactive command, after a valid CIDR
\* text of prefix p <= 30 was entered and a mask of prefix q with
\* p <= q <= 30 was selected, the subnet calculation made with the derived
\* count 2^(q-p) does not end in an error and lists 2^(q-p) subnets of
\* prefix q that together cover the entered block.  In the web form the
\* calculation is a submit made once the effect on the entered text has run;
\* in the interactive command it is the listing for the selected mask.
C22_FlowListsSelectedSubnets ==
    [][/\ (/\ HandleSubmit /\ pc = "form" /\ isValidCIDR(arg.networkCidr)
           /\ isValidIPv4(arg.subnetMask)) =>
             LET p == parseInt(Split(arg.networkCidr, "/")[2])
                 q == subnetMaskToCIDR(arg.subnetMask).value
             IN  (p <= q /\ q <= 30 /\ arg.subnetCount = NumberToString(2 ^ (q - p))) =>
                    /\ res'.error = NoResult
                    /\ ListsTheBlock(res'.result, arg.networkAddress, p, q)
       /\ (/\ DisplaySubnetDetails
           /\ arg.splitCount = 0
           /\ arg.detailsCount >= 2
           /\ arg.detailsCount = arg.selectedMask.subnets) =>
             ListsTheBlock(res', arg.ipAddress, arg.originalCidrPrefix,
                           arg.selectedMask.cidr)]_vars

====
